---- MODULE Spec2Model ----
(***************************************************************************)
(* A model of SEEQST_LOQC.py: the path-space enumerator, the single-gate   *)
(* compiler optical_implementation and the OpticalCircuit container        *)
(* (add_gate, __mul__).                                                    *)
(*                                                                         *)
(* Python values are represented as follows.                               *)
(*   - a bit tuple (a path label) is a sequence over {0,1}; Python index   *)
(*     idx is position idx+1, and a negative idx counts from the end;      *)
(*   - an int-or-None operand is <<v>> for the int v and <<>> for None;    *)
(*   - a params dict is the set of its <<key, value>> items;               *)
(*   - a location is a record [shape, name, labels]: the string f"path_p"  *)
(*     (shape "name"), one label (shape "label") or a pair of labels       *)
(*     (shape "pair");                                                     *)
(*   - an OpticalElement object is a cell of `heap`, named <<x, k>>: the   *)
(*     k-th element made for circuit x (by its add_gate calls, or by the   *)
(*     * that built it); two lists may hold the same object;               *)
(*   - an exception is the name of its class.                              *)
(***************************************************************************)
EXTENDS Integers, Sequences, FiniteSets, TLC

VARIABLES
    circuits,   \* the OpticalCircuit objects, in creation order
    heap,       \* heap[x]: the OpticalElement objects made for circuit x
    hist,       \* per circuit: how it was made, and its successful add_gate calls
    args,       \* the arguments of the call under test (GateSpec, CompileSpec)
    result,     \* what that call returned or raised
    pc          \* "call" before that call ran, "done" after

vars == <<circuits, heap, hist, args, result, pc>>

(***************************************************************************)
(* Bounds.                                                                 *)
(***************************************************************************)
MaxN == 2          \* circuits have 1..MaxN qubits
MaxCompileN == 4   \* the functions alone are called with N up to this
MaxCalls == 3      \* successful add_gate and * calls in one run of Spec
MaxStage == 2      \* GateSpec calls add_gate on a circuit below this stage count

None == <<>>
Some(v) == <<v>>
IsNone(x) == x = <<>>
Val(x) == x[1]

Pow2(n) == 2 ^ n

(***************************************************************************)
(* Python sequence indexing: t[idx] is defined for -len <= idx < len.      *)
(***************************************************************************)
IndexInRange(t, idx) == idx >= -Len(t) /\ idx < Len(t)
Pos(t, idx) == IF idx >= 0 THEN idx + 1 ELSE Len(t) + idx + 1
GetItem(t, idx) == t[Pos(t, idx)]
SetItem(t, idx, v) == [t EXCEPT ![Pos(t, idx)] = v]

\* The list that results from extending an empty list by each list of ss in turn.
RECURSIVE Extend(_)
Extend(ss) == IF ss = <<>> THEN <<>> ELSE Head(ss) \o Extend(Tail(ss))

(***************************************************************************)
(* OpticalElement(element, params, location, stage=0).                     *)
(***************************************************************************)
OpticalElement(element, params, location, stage) ==
    [element |-> element, params |-> params, location |-> location, stage |-> stage]

PathName(p) == [shape |-> "name", name |-> "path_" \o ToString(p), labels |-> <<>>]
AtLabel(p) == [shape |-> "label", name |-> "", labels |-> <<p>>]
AtPair(p0, p1) == [shape |-> "pair", name |-> "", labels |-> <<p0, p1>>]

(***************************************************************************)
(* all_bitstrings(n) = list(product([0, 1], repeat=n)): the n-tuples in    *)
(* product order, each prefix extended by 0 and then by 1.                 *)
(***************************************************************************)
RECURSIVE all_bitstrings(_)
all_bitstrings(n) ==
    IF n = 0 THEN << <<>> >>
    ELSE LET prev == all_bitstrings(n - 1)
         IN [m \in 1..(2 * Len(prev)) |-> Append(prev[(m + 1) \div 2], (m - 1) % 2)]

(***************************************************************************)
(* paired_paths_for_qubit(N, k).  k is an int-or-None operand: k - 2       *)
(* raises TypeError on None, bits[k_idx] raises IndexError outside the     *)
(* label (on the first label: there is always one, all of one length).     *)
(***************************************************************************)
PathIndexRaises(n_path, k, offset) ==
    IF IsNone(k) THEN "TypeError"
    ELSE IF ~IndexInRange([p \in 1..n_path |-> 0], Val(k) - offset) THEN "IndexError"
    ELSE "none"

paired_paths_raises(N, k) == PathIndexRaises(N - 1, k, 2)

\* A variant without the `if bits[k_idx] == 0` test: every label is paired.
paired_paths_unfiltered(N, k) ==
    LET n_path == N - 1
        k_idx == Val(k) - 2
        all == all_bitstrings(n_path)
    IN  [m \in 1..Len(all) |-> <<all[m], SetItem(all[m], k_idx, 1)>>]

paired_paths_for_qubit(N, k) ==
    LET n_path == N - 1
        k_idx == Val(k) - 2
        zero == SelectSeq(all_bitstrings(n_path), LAMBDA bits : GetItem(bits, k_idx) = 0)
    IN  [m \in 1..Len(zero) |-> <<zero[m], SetItem(zero[m], k_idx, 1)>>]

(***************************************************************************)
(* paths_with_bit(N, k, value): the labels whose bit k-2 is value.         *)
(***************************************************************************)
paths_with_bit_raises(N, k) == PathIndexRaises(N - 1, k, 2)

paths_with_bit(N, k, value) ==
    LET n_path == N - 1
        k_idx == Val(k) - 2
    IN  SelectSeq(all_bitstrings(n_path), LAMBDA bits : GetItem(bits, k_idx) = value)

(***************************************************************************)
(* What a call returns: a list of elements, or the exception it raised.    *)
(***************************************************************************)
Returns(value) == [raises |-> "none", message |-> "", value |-> value]
Raises(class, message) == [raises |-> class, message |-> message, value |-> <<>>]

Encodings == {"pol_path", "path_only"}

(***************************************************************************)
(* The rotation on the polarization qubit: one QWP-HWP-QWP triple per      *)
(* path p in range(2 ** (N - 1)).                                          *)
(***************************************************************************)
PolarizationRotation(gate, N) ==
    LET n_paths == Pow2(N - 1)
        q == IF gate = "Rx" THEN "0" ELSE "pi/4"
        h == IF gate = "Rx" THEN "pi/8" ELSE "3pi/8"
        Triple(p) == << OpticalElement("QWP", {<<"angle", q>>}, PathName(p), 0),
                        OpticalElement("HWP", {<<"angle", h>>}, PathName(p), 0),
                        OpticalElement("QWP", {<<"angle", q>>}, PathName(p), 0) >>
    IN  Extend([m \in 1..n_paths |-> Triple(m - 1)])

(***************************************************************************)
(* The rotation on a path qubit, over the pairs of its matching: Rx is one *)
(* BS per pair; Ry is PhasePlate(-pi/2), BS(pi/2), PhasePlate(pi/2) per    *)
(* pair.  The source has this loop twice (path_only, and pol_path k /= 1). *)
(***************************************************************************)
\* A variant whose Ry interferes before the first phase plate.
PathRotationBsFirst(gate, pairs) ==
    LET RxOf(pr) == << OpticalElement("BS", {}, AtPair(pr[1], pr[2]), 0) >>
        RyOf(pr) == << OpticalElement("BS", {<<"phi", "pi/2">>}, AtPair(pr[1], pr[2]), 0),
                       OpticalElement("PhasePlate", {<<"phi", "-pi/2">>}, AtLabel(pr[1]), 0),
                       OpticalElement("PhasePlate", {<<"phi", "pi/2">>}, AtLabel(pr[1]), 0) >>
    IN  IF gate = "Rx" THEN Extend([m \in 1..Len(pairs) |-> RxOf(pairs[m])])
        ELSE Extend([m \in 1..Len(pairs) |-> RyOf(pairs[m])])

PathRotation(gate, pairs) ==
    LET RxOf(pr) == << OpticalElement("BS", {}, AtPair(pr[1], pr[2]), 0) >>
        RyOf(pr) == << OpticalElement("PhasePlate", {<<"phi", "-pi/2">>}, AtLabel(pr[1]), 0),
                       OpticalElement("BS", {<<"phi", "pi/2">>}, AtPair(pr[1], pr[2]), 0),
                       OpticalElement("PhasePlate", {<<"phi", "pi/2">>}, AtLabel(pr[1]), 0) >>
    IN  IF gate = "Rx" THEN Extend([m \in 1..Len(pairs) |-> RxOf(pairs[m])])
        ELSE Extend([m \in 1..Len(pairs) |-> RyOf(pairs[m])])

(***************************************************************************)
(* The path -> path CNOT loop: one PathSwap per label with bits[c_idx] = 1 *)
(* and bits[t_idx] = 0.  `and` reads bits[t_idx] only on a label whose     *)
(* control bit is 1, and some label has it as soon as c_idx is an index,   *)
(* so the loop raises IndexError iff either index is outside the label.    *)
(***************************************************************************)
PathSwapsRaises(n_path, control, target, offset) ==
    IF IsNone(control) \/ IsNone(target) THEN "TypeError"
    ELSE IF PathIndexRaises(n_path, control, offset) # "none"
         THEN PathIndexRaises(n_path, control, offset)
         ELSE PathIndexRaises(n_path, target, offset)

\* A variant without the `bits[t_idx] == 0` test.
PathSwapsAnyTarget(n_path, c_idx, t_idx) ==
    LET hit == SelectSeq(all_bitstrings(n_path), LAMBDA bits : GetItem(bits, c_idx) = 1)
    IN  [m \in 1..Len(hit) |->
           OpticalElement("PathSwap", {}, AtPair(hit[m], SetItem(hit[m], t_idx, 1)), 0)]

PathSwaps(n_path, c_idx, t_idx) ==
    LET hit == SelectSeq(all_bitstrings(n_path),
                         LAMBDA bits : GetItem(bits, c_idx) = 1 /\ GetItem(bits, t_idx) = 0)
    IN  [m \in 1..Len(hit) |->
           OpticalElement("PathSwap", {}, AtPair(hit[m], SetItem(hit[m], t_idx, 1)), 0)]

(***************************************************************************)
(* optical_implementation(gate, N, i, j, encoding).  None compares unequal *)
(* to 1, so a None operand takes the `!= 1` branches.                      *)
(***************************************************************************)
Is1(x) == ~IsNone(x) /\ Val(x) = 1
Succ(x) == IF IsNone(x) THEN None ELSE Some(Val(x) + 1)

CompileRotation(gate, N, k, encoding) ==
    IF encoding = "pol_path" /\ Is1(k)
    THEN Returns(PolarizationRotation(gate, N))
    ELSE IF encoding = "path_only"
    THEN IF paired_paths_raises(N + 1, Succ(k)) # "none"
         THEN Raises(paired_paths_raises(N + 1, Succ(k)), "")
         ELSE Returns(PathRotation(gate, paired_paths_for_qubit(N + 1, Succ(k))))
    ELSE IF paired_paths_raises(N, k) # "none"
         THEN Raises(paired_paths_raises(N, k), "")
         ELSE Returns(PathRotation(gate, paired_paths_for_qubit(N, k)))

CompileCNOT(N, control, target, encoding) ==
    IF encoding = "pol_path"
    THEN IF Is1(control) /\ ~Is1(target)
         THEN IF paired_paths_raises(N, target) # "none"
              THEN Raises(paired_paths_raises(N, target), "")
              ELSE LET pairs == paired_paths_for_qubit(N, target)
                   IN  Returns([m \in 1..Len(pairs) |->
                                  OpticalElement("PBS", {}, AtPair(pairs[m][1], pairs[m][2]), 0)])
         ELSE IF ~Is1(control) /\ ~Is1(target)
         THEN IF PathSwapsRaises(N - 1, control, target, 2) # "none"
              THEN Raises(PathSwapsRaises(N - 1, control, target, 2), "")
              ELSE Returns(PathSwaps(N - 1, Val(control) - 2, Val(target) - 2))
         ELSE IF ~Is1(control) /\ Is1(target)
         THEN IF paths_with_bit_raises(N, control) # "none"
              THEN Raises(paths_with_bit_raises(N, control), "")
              ELSE LET one_paths == paths_with_bit(N, control, 1)
                   IN  Returns([m \in 1..Len(one_paths) |->
                                  OpticalElement("HWP", {<<"angle", "pi/2">>},
                                                 AtLabel(one_paths[m]), 0)])
         ELSE Raises("ValueError", "Unsupported CNOT configuration")
    ELSE IF PathSwapsRaises(N, control, target, 1) # "none"
         THEN Raises(PathSwapsRaises(N, control, target, 1), "")
         ELSE Returns(PathSwaps(N, Val(control) - 1, Val(target) - 1))

optical_implementation(gate, N, i, j, encoding) ==
    IF encoding \notin Encodings
    THEN Raises("ValueError", "encoding must be 'pol_path' or 'path_only'")
    ELSE IF gate \in {"Rx", "Ry"} THEN CompileRotation(gate, N, i, encoding)
    ELSE IF gate = "CNOT" THEN CompileCNOT(N, i, j, encoding)
    ELSE Raises("ValueError", "Unknown gate")

(***************************************************************************)
(* OpticalCircuit.  A circuit object is [N, encoding, elements, stage],    *)
(* elements being the list of the names of its OpticalElement objects.     *)
(* Every circuit has a list object of its own: __init__ makes a new [],    *)
(* __mul__ assigns the new list that + builds, and extend changes only the *)
(* list of self; so a list is held by value.  The elements are objects: a  *)
(* * b holds the very elements of a, and copies of those of b.             *)
(* A store is [circuits, heap]: the objects a call reads and writes.       *)
(***************************************************************************)
OpticalCircuit(N, encoding) ==
    [N |-> N, encoding |-> encoding, elements |-> <<>>, stage |-> 0]

Deref(h, id) == h[id[1]][id[2]]

(***************************************************************************)
(* circuits[x].add_gate(gate, i, j) on store st: the store afterwards, or  *)
(* the exception of optical_implementation, raised before anything is      *)
(* written.                                                                *)
(***************************************************************************)
\* A variant that stamps every element of self, old and new, with the stage.
add_gate_restamps_all(st, x, gate, i, j) ==
    LET self == st.circuits[x]
        r == optical_implementation(gate, self.N, i, j, self.encoding)
        elems == r.value
        stamped == [m \in 1..Len(elems) |-> [elems[m] EXCEPT !.stage = self.stage]]
        ids == [m \in 1..Len(elems) |-> <<x, Len(st.heap[x]) + m>>]
        held == {self.elements[m] : m \in 1..Len(self.elements)}
        grown == [st.heap EXCEPT ![x] = @ \o stamped]
    IN  IF r.raises # "none"
        THEN [raises |-> r.raises, message |-> r.message,
              circuits |-> st.circuits, heap |-> st.heap]
        ELSE [raises |-> "none", message |-> "",
              circuits |-> [st.circuits EXCEPT ![x].elements = @ \o ids, ![x].stage = @ + 1],
              heap |-> [y \in DOMAIN grown |->
                          [k \in DOMAIN grown[y] |->
                             IF <<y, k>> \in held
                             THEN [grown[y][k] EXCEPT !.stage = self.stage]
                             ELSE grown[y][k]]]]

\* A variant that advances the stage counter by the number of elements compiled.
add_gate_stage_by_elements(st, x, gate, i, j) ==
    LET self == st.circuits[x]
        r == optical_implementation(gate, self.N, i, j, self.encoding)
        elems == r.value
        stamped == [m \in 1..Len(elems) |-> [elems[m] EXCEPT !.stage = self.stage]]
        ids == [m \in 1..Len(elems) |-> <<x, Len(st.heap[x]) + m>>]
    IN  IF r.raises # "none"
        THEN [raises |-> r.raises, message |-> r.message,
              circuits |-> st.circuits, heap |-> st.heap]
        ELSE [raises |-> "none", message |-> "",
              circuits |-> [st.circuits EXCEPT ![x].elements = @ \o ids,
                                               ![x].stage = @ + Len(elems)],
              heap |-> [st.heap EXCEPT ![x] = @ \o stamped]]

\* A variant that advances the stage counter before it compiles the gate.
add_gate_counts_first(st, x, gate, i, j) ==
    LET self == st.circuits[x]
        r == optical_implementation(gate, self.N, i, j, self.encoding)
        elems == r.value
        stamped == [m \in 1..Len(elems) |-> [elems[m] EXCEPT !.stage = self.stage]]
        ids == [m \in 1..Len(elems) |-> <<x, Len(st.heap[x]) + m>>]
    IN  IF r.raises # "none"
        THEN [raises |-> r.raises, message |-> r.message,
              circuits |-> [st.circuits EXCEPT ![x].stage = @ + 1], heap |-> st.heap]
        ELSE [raises |-> "none", message |-> "",
              circuits |-> [st.circuits EXCEPT ![x].elements = @ \o ids, ![x].stage = @ + 1],
              heap |-> [st.heap EXCEPT ![x] = @ \o stamped]]

add_gate(st, x, gate, i, j) ==
    LET self == st.circuits[x]
        r == optical_implementation(gate, self.N, i, j, self.encoding)
        elems == r.value
        stamped == [m \in 1..Len(elems) |-> [elems[m] EXCEPT !.stage = self.stage]]
        ids == [m \in 1..Len(elems) |-> <<x, Len(st.heap[x]) + m>>]
    IN  IF r.raises # "none"
        THEN [raises |-> r.raises, message |-> r.message,
              circuits |-> st.circuits, heap |-> st.heap]
        ELSE [raises |-> "none", message |-> "",
              circuits |-> [st.circuits EXCEPT ![x].elements = @ \o ids, ![x].stage = @ + 1],
              heap |-> [st.heap EXCEPT ![x] = @ \o stamped]]

(***************************************************************************)
(* circuits[a] * circuits[b] on store st: the store afterwards, the new    *)
(* circuit being its last.                                                 *)
(***************************************************************************)
\* A variant of * that copies the elements of other with their stages as they are.
mul_unshifted(st, a, b) ==
    LET self == st.circuits[a]
        other == st.circuits[b]
        x == Len(st.circuits) + 1
        copies == [m \in 1..Len(other.elements) |->
                     LET e == Deref(st.heap, other.elements[m])
                     IN  OpticalElement(e.element, e.params, e.location, e.stage)]
        ids == [m \in 1..Len(copies) |-> <<x, m>>]
        new == OpticalCircuit(self.N, self.encoding)
    IN  IF self.N # other.N
        THEN [raises |-> "ValueError", message |-> "Circuits must have same N",
              circuits |-> st.circuits, heap |-> st.heap]
        ELSE [raises |-> "none", message |-> "",
              circuits |-> Append(st.circuits,
                                  [new EXCEPT !.elements = self.elements \o ids,
                                              !.stage = self.stage + other.stage]),
              heap |-> Append(st.heap, copies)]

\* A variant of * that lists the copies of the elements of other first.
mul_other_first(st, a, b) ==
    LET self == st.circuits[a]
        other == st.circuits[b]
        x == Len(st.circuits) + 1
        copies == [m \in 1..Len(other.elements) |->
                     LET e == Deref(st.heap, other.elements[m])
                     IN  OpticalElement(e.element, e.params, e.location, e.stage + self.stage)]
        ids == [m \in 1..Len(copies) |-> <<x, m>>]
        new == OpticalCircuit(self.N, self.encoding)
    IN  IF self.N # other.N
        THEN [raises |-> "ValueError", message |-> "Circuits must have same N",
              circuits |-> st.circuits, heap |-> st.heap]
        ELSE [raises |-> "none", message |-> "",
              circuits |-> Append(st.circuits,
                                  [new EXCEPT !.elements = ids \o self.elements,
                                              !.stage = self.stage + other.stage]),
              heap |-> Append(st.heap, copies)]

\* A variant of * that leaves the stage counter of the new circuit at 0.
mul_stage_unset(st, a, b) ==
    LET self == st.circuits[a]
        other == st.circuits[b]
        x == Len(st.circuits) + 1
        copies == [m \in 1..Len(other.elements) |->
                     LET e == Deref(st.heap, other.elements[m])
                     IN  OpticalElement(e.element, e.params, e.location, e.stage + self.stage)]
        ids == [m \in 1..Len(copies) |-> <<x, m>>]
        new == OpticalCircuit(self.N, self.encoding)
    IN  IF self.N # other.N
        THEN [raises |-> "ValueError", message |-> "Circuits must have same N",
              circuits |-> st.circuits, heap |-> st.heap]
        ELSE [raises |-> "none", message |-> "",
              circuits |-> Append(st.circuits,
                                  [new EXCEPT !.elements = self.elements \o ids] ),
              heap |-> Append(st.heap, copies)]

__mul__(st, a, b) ==
    LET self == st.circuits[a]
        other == st.circuits[b]
        x == Len(st.circuits) + 1
        copies == [m \in 1..Len(other.elements) |->
                     LET e == Deref(st.heap, other.elements[m])
                     IN  OpticalElement(e.element, e.params, e.location, e.stage + self.stage)]
        ids == [m \in 1..Len(copies) |-> <<x, m>>]
        new == OpticalCircuit(self.N, self.encoding)
    IN  IF self.N # other.N
        THEN [raises |-> "ValueError", message |-> "Circuits must have same N",
              circuits |-> st.circuits, heap |-> st.heap]
        ELSE [raises |-> "none", message |-> "",
              circuits |-> Append(st.circuits,
                                  [new EXCEPT !.elements = self.elements \o ids,
                                              !.stage = self.stage + other.stage]),
              heap |-> Append(st.heap, copies)]

(***************************************************************************)
(* What circuit x shows: its configuration, its stage counter and its      *)
(* elements read through the heap.                                         *)
(***************************************************************************)
ViewOf(st, x) ==
    LET c == st.circuits[x]
    IN  [N |-> c.N, encoding |-> c.encoding, stage |-> c.stage,
         elements |-> [m \in 1..Len(c.elements) |-> Deref(st.heap, c.elements[m])]]

Store == [circuits |-> circuits, heap |-> heap]

View(x) == ViewOf(Store, x)

(***************************************************************************)
(* The inputs.  An operand is None (the default of i and j) or an int from *)
(* -1 to one past the largest qubit; j is passed to CNOT alone.            *)
(***************************************************************************)
Ns == 1..MaxN
CompileNs == 1..MaxCompileN
OperandsUpTo(n) == {None} \cup {Some(v) : v \in (-1)..(n + 1)}
Qubits == {Some(v) : v \in 1..MaxN}
Gates == {"Rx", "Ry", "CNOT", "H"}
EncodingArgs == Encodings \cup {"dual_rail"}

NoArgs == [fn |-> "none", gate |-> "", N |-> 0, i |-> None, j |-> None,
           encoding |-> "", value |-> 0]

Idle == /\ args = NoArgs
        /\ result = Returns(<<>>)
        /\ pc = "idle"

Born(how, left, right) == [born |-> how, left |-> left, right |-> right, added |-> 0]

(***************************************************************************)
(* The successful calls so far: every circuit past the two constructed     *)
(* ones was returned by a *, and hist counts the add_gate calls.           *)
(***************************************************************************)
GatesAdded == LET RECURSIVE Sum(_)
                  Sum(x) == IF x = 0 THEN 0 ELSE hist[x].added + Sum(x - 1)
              IN  Sum(Len(hist))

Calls == (Len(circuits) - 2) + GatesAdded

(***************************************************************************)
(* The whole of add_gate on circuit x.                                     *)
(***************************************************************************)
ApplyAddGate(x, gate, i, j) ==
    LET r == add_gate(Store, x, gate, i, j)
    IN  /\ heap' = r.heap
        /\ circuits' = r.circuits
        /\ hist' = IF r.raises = "none" THEN [hist EXCEPT ![x].added = @ + 1] ELSE hist

AddGate(x, gate, i, j) ==
    /\ Calls < MaxCalls
    /\ ApplyAddGate(x, gate, i, j)
    /\ UNCHANGED <<args, result, pc>>

Mul(a, b) ==
    LET r == __mul__(Store, a, b)
    IN  /\ Calls < MaxCalls
        /\ heap' = r.heap
        /\ circuits' = r.circuits
        /\ hist' = IF r.raises = "none" THEN Append(hist, Born("mul", a, b)) ELSE hist
        /\ UNCHANGED <<args, result, pc>>

(***************************************************************************)
(* Spec: two circuits are constructed (__init__ checks nothing, and * is   *)
(* binary), then extended by gates on their qubits and composed, the       *)
(* results included.                                                       *)
(***************************************************************************)
Init ==
    /\ \E Na \in Ns, Nb \in Ns, ea \in Encodings, eb \in Encodings :
          circuits = << OpticalCircuit(Na, ea), OpticalCircuit(Nb, eb) >>
    /\ heap = << <<>>, <<>> >>
    /\ hist = << Born("init", 0, 0), Born("init", 0, 0) >>
    /\ Idle

Next ==
    \/ \E x \in DOMAIN circuits, gate \in Gates, i \in Qubits :
          \E j \in IF gate = "CNOT" THEN Qubits ELSE {None} : AddGate(x, gate, i, j)
    \/ \E a \in DOMAIN circuits, b \in DOMAIN circuits : Mul(a, b)

Spec == Init /\ [][Next]_vars

(***************************************************************************)
(* GateSpec: one constructed circuit, of any configuration, and a caller   *)
(* that calls add_gate on it with any operands, one call after another.    *)
(* args holds the arguments of the call, result how it ended.              *)
(***************************************************************************)
GateArgs(gate, i, j) == [NoArgs EXCEPT !.fn = "add_gate", !.gate = gate, !.i = i, !.j = j]

GateCalls ==
    { GateArgs(gate, i, None) : gate \in Gates \ {"CNOT"}, i \in OperandsUpTo(MaxN) }
    \cup { GateArgs("CNOT", i, j) : i \in OperandsUpTo(MaxN), j \in OperandsUpTo(MaxN) }

GateInit ==
    /\ \E N \in Ns, encoding \in EncodingArgs : circuits = << OpticalCircuit(N, encoding) >>
    /\ heap = << <<>> >>
    /\ hist = << Born("init", 0, 0) >>
    /\ args \in GateCalls
    /\ result = Returns(<<>>)
    /\ pc = "call"

CallAddGate ==
    LET r == add_gate(Store, 1, args.gate, args.i, args.j)
    IN  /\ pc = "call"
        /\ args.fn = "add_gate"
        /\ circuits[1].stage < MaxStage
        /\ ApplyAddGate(1, args.gate, args.i, args.j)
        /\ result' = [raises |-> r.raises, message |-> r.message, value |-> <<>>]
        /\ pc' = "done"
        /\ UNCHANGED args

NextGateCall ==
    /\ pc = "done"
    /\ args.fn = "add_gate"
    /\ args' \in GateCalls
    /\ pc' = "call"
    /\ UNCHANGED <<circuits, heap, hist, result>>

GateNext == CallAddGate \/ NextGateCall

GateSpec == GateInit /\ [][GateNext]_vars

(***************************************************************************)
(* CompileSpec: the functions alone, each called once on drawn arguments.  *)
(***************************************************************************)
PairedPathsArgs(N, k) == [NoArgs EXCEPT !.fn = "paired_paths_for_qubit", !.N = N, !.i = k]

CompileArgs(gate, N, i, j, encoding) ==
    [NoArgs EXCEPT !.fn = "optical_implementation", !.gate = gate, !.N = N, !.i = i, !.j = j,
                   !.encoding = encoding]

CompileCalls ==
    { PairedPathsArgs(N, k) : N \in CompileNs, k \in OperandsUpTo(MaxCompileN) }
    \cup { CompileArgs(gate, N, i, None, encoding) :
             gate \in Gates \ {"CNOT"}, N \in CompileNs, i \in OperandsUpTo(MaxCompileN),
             encoding \in EncodingArgs }
    \cup { CompileArgs("CNOT", N, i, j, encoding) :
             N \in CompileNs, i \in OperandsUpTo(MaxCompileN), j \in OperandsUpTo(MaxCompileN),
             encoding \in EncodingArgs }

CompileInit ==
    /\ circuits = <<>>
    /\ heap = <<>>
    /\ hist = <<>>
    /\ args \in CompileCalls
    /\ result = Returns(<<>>)
    /\ pc = "call"

CallPairedPaths ==
    /\ pc = "call"
    /\ args.fn = "paired_paths_for_qubit"
    /\ result' = IF paired_paths_raises(args.N, args.i) # "none"
                 THEN Raises(paired_paths_raises(args.N, args.i), "")
                 ELSE Returns(paired_paths_for_qubit(args.N, args.i))
    /\ pc' = "done"
    /\ UNCHANGED <<circuits, heap, hist, args>>

CallOpticalImplementation ==
    /\ pc = "call"
    /\ args.fn = "optical_implementation"
    /\ result' = optical_implementation(args.gate, args.N, args.i, args.j, args.encoding)
    /\ pc' = "done"
    /\ UNCHANGED <<circuits, heap, hist, args>>

CompileNext == CallPairedPaths \/ CallOpticalImplementation

CompileSpec == CompileInit /\ [][CompileNext]_vars

(***************************************************************************)
(*                         The compiler's properties                       *)
(***************************************************************************)
Labels(n) == [1..n -> {0, 1}]

Done(fn) == pc = "done" /\ args.fn = fn

\* Every label of `chosen` is the first label of the location of exactly one
\* element of els.
ExactlyOnce(chosen, els) ==
    \A b \in chosen : Cardinality({m \in 1..Len(els) : els[m].location.labels[1] = b}) = 1

(***************************************************************************)
(* C7: for N >= 2 and k in [2, N], paired_paths_for_qubit(N, k) returns    *)
(* 2^(N-2) pairs (bits0, bits1) of (N-1)-bit labels, bits0 with 0 at index *)
(* k-2 and bits1 equal to bits0 but for a 1 there, and every (N-1)-bit     *)
(* label is in exactly one pair.                                           *)
(***************************************************************************)
C7_PairedPathsPerfectMatching ==
    (Done("paired_paths_for_qubit") /\ ~IsNone(args.i) /\ args.N >= 2
        /\ Val(args.i) \in 2..args.N)
    => LET N == args.N
           at == Val(args.i) - 1
           pairs == result.value
       IN  /\ result.raises = "none"
           /\ Len(pairs) = 2 ^ (N - 2)
           /\ \A m \in 1..Len(pairs) :
                 /\ pairs[m][1] \in Labels(N - 1)
                 /\ pairs[m][1][at] = 0
                 /\ pairs[m][2] = [pairs[m][1] EXCEPT ![at] = 1]
           /\ \A b \in Labels(N - 1) :
                 Cardinality({ms \in (1..Len(pairs)) \X {1, 2} : pairs[ms[1]][ms[2]] = b}) = 1

C7_Witness ==
    /\ Done("paired_paths_for_qubit")
    /\ args.N = 4 /\ args.i = Some(3)
    /\ result.raises = "none"
    /\ Len(result.value) = 4
    /\ result.value[2] = << <<0, 0, 1>>, <<0, 1, 1>> >>

(***************************************************************************)
(* C8: a CNOT between two distinct path-encoded qubits compiles to one     *)
(* PathSwap per label with control bit 1 and target bit 0, at the pair     *)
(* (label, label with the target bit set), and to nothing else: on N-bit   *)
(* labels at index operand-1 under path_only (2^(N-2) elements), on        *)
(* (N-1)-bit labels at index operand-2 under pol_path with both operands   *)
(* other than 1 (2^(N-3) elements).                                        *)
(***************************************************************************)
PathToPathCNOT ==
    /\ Done("optical_implementation") /\ args.gate = "CNOT"
    /\ ~IsNone(args.i) /\ ~IsNone(args.j) /\ args.i # args.j
    /\ \/ args.encoding = "path_only" /\ Val(args.i) \in 1..args.N /\ Val(args.j) \in 1..args.N
       \/ args.encoding = "pol_path" /\ Val(args.i) \in 2..args.N /\ Val(args.j) \in 2..args.N

C8_PathSwapPerControlledLabel ==
    PathToPathCNOT
    => LET n == IF args.encoding = "path_only" THEN args.N ELSE args.N - 1
           c == IF args.encoding = "path_only" THEN Val(args.i) ELSE Val(args.i) - 1
           t == IF args.encoding = "path_only" THEN Val(args.j) ELSE Val(args.j) - 1
           hits == {b \in Labels(n) : b[c] = 1 /\ b[t] = 0}
           els == result.value
       IN  /\ result.raises = "none"
           /\ Len(els) = Cardinality(hits)
           /\ Len(els) = 2 ^ (n - 2)
           /\ \A m \in 1..Len(els) :
                 \E b \in hits :
                    els[m] = OpticalElement("PathSwap", {}, AtPair(b, [b EXCEPT ![t] = 1]), 0)
           /\ ExactlyOnce(hits, els)

C8_Witness ==
    /\ Done("optical_implementation")
    /\ args.gate = "CNOT" /\ args.encoding = "path_only"
    /\ args.N = 3 /\ args.i = Some(2) /\ args.j = Some(3)
    /\ result.raises = "none"
    /\ Len(result.value) = 2
    /\ result.value[1].location = AtPair(<<0, 1, 0>>, <<0, 1, 1>>)

(***************************************************************************)
(* C9: a rotation on a path-encoded qubit k (pol_path, k in [2, N], index  *)
(* k-2 of (N-1)-bit labels; path_only, k in [1, N], index k-1 of N-bit     *)
(* labels) is compiled over the perfect matching on that bit: Rx is one    *)
(* parameterless BS per pair; Ry is, per pair and in this order,           *)
(* PhasePlate(phi=-pi/2) at the 0-member, BS(phi=pi/2) across the pair,    *)
(* PhasePlate(phi=pi/2) at the 0-member.                                   *)
(***************************************************************************)
PathQubitRotation ==
    /\ Done("optical_implementation") /\ args.gate \in {"Rx", "Ry"}
    /\ ~IsNone(args.i)
    /\ \/ args.encoding = "path_only" /\ Val(args.i) \in 1..args.N
       \/ args.encoding = "pol_path" /\ Val(args.i) \in 2..args.N

RotationOverMatching ==
    PathQubitRotation
    => LET n == IF args.encoding = "path_only" THEN args.N ELSE args.N - 1
           at == IF args.encoding = "path_only" THEN Val(args.i) ELSE Val(args.i) - 1
           zero == {b \in Labels(n) : b[at] = 0}
           One(b) == [b EXCEPT ![at] = 1]
           els == result.value
       IN  /\ result.raises = "none"
           /\ Cardinality(zero) * 2 = Cardinality(Labels(n))
           /\ args.gate = "Rx" =>
                 /\ Len(els) = Cardinality(zero)
                 /\ \A m \in 1..Len(els) :
                       \E b \in zero : els[m] = OpticalElement("BS", {}, AtPair(b, One(b)), 0)
                 /\ ExactlyOnce(zero, els)
           /\ args.gate = "Ry" =>
                 /\ Len(els) = 3 * Cardinality(zero)
                 /\ \A m \in 1..Cardinality(zero) :
                       \E b \in zero :
                          /\ els[3 * m - 2] =
                                OpticalElement("PhasePlate", {<<"phi", "-pi/2">>}, AtLabel(b), 0)
                          /\ els[3 * m - 1] =
                                OpticalElement("BS", {<<"phi", "pi/2">>}, AtPair(b, One(b)), 0)
                          /\ els[3 * m] =
                                OpticalElement("PhasePlate", {<<"phi", "pi/2">>}, AtLabel(b), 0)
                 /\ ExactlyOnce(zero, [m \in 1..Cardinality(zero) |-> els[3 * m - 1]])

RxExampleCall ==
    /\ Done("optical_implementation")
    /\ args.gate = "Rx" /\ args.N = 3 /\ args.i = Some(2) /\ args.encoding = "pol_path"

\* C9 as claimed: with the example "Rx, N=3, i=2, pol_path yields one
\* BeamSplitter at ((0,),(1,))".
C9_AsClaimed ==
    /\ RotationOverMatching
    /\ RxExampleCall =>
          result.value = << OpticalElement("BS", {}, AtPair(<<0>>, <<1>>), 0) >>

\* C9 amended: the rotation is compiled over the matching as claimed, and the
\* example call (N=3, so 2-bit labels) yields two BeamSplitters, at
\* ((0,0),(1,0)) and ((0,1),(1,1)).
C9_Amended ==
    /\ RotationOverMatching
    /\ RxExampleCall =>
          result.value = << OpticalElement("BS", {}, AtPair(<<0, 0>>, <<1, 0>>), 0),
                            OpticalElement("BS", {}, AtPair(<<0, 1>>, <<1, 1>>), 0) >>

C9_Witness ==
    /\ RxExampleCall
    /\ result.raises = "none"
    /\ Len(result.value) = 2
    /\ result.value[2].location = AtPair(<<0, 1>>, <<1, 1>>)

(***************************************************************************)
(*                          add_gate's properties                          *)
(***************************************************************************)
StoreAfter == [circuits |-> circuits', heap |-> heap']

\* A step of GateSpec in which the call of args ran.
GateCallRan == pc = "call" /\ pc' = "done" /\ args.fn = "add_gate"

(***************************************************************************)
(* C1: every successful add_gate call increases the stage counter by       *)
(* exactly 1, whatever the number of elements the gate compiles to (zero   *)
(* included); after k successful calls on a freshly created circuit the    *)
(* counter is k.                                                           *)
(***************************************************************************)
C1_StageCountsSuccessfulCalls ==
    /\ [](hist[1].born = "init" => circuits[1].stage = hist[1].added)
    /\ [][(GateCallRan /\ result'.raises = "none")
            => circuits'[1].stage = circuits[1].stage + 1]_vars

\* Two successful calls, the last one compiling to no element at all.
C1_Witness ==
    /\ Done("add_gate")
    /\ result.raises = "none"
    /\ args.gate = "CNOT" /\ args.i = Some(1) /\ args.j = Some(1)
    /\ circuits[1].encoding = "path_only"
    /\ hist[1].added = 2
    /\ circuits[1].stage = 2
    /\ Len(circuits[1].elements) = 1

(***************************************************************************)
(* C3: an add_gate call with a gate name outside {Rx, Ry, CNOT}, or on a   *)
(* circuit whose encoding is outside {pol_path, path_only}, or a pol_path  *)
(* CNOT with control = target = 1, ends in an error and leaves the         *)
(* circuit's element sequence and stage counter as they were.              *)
(***************************************************************************)
Unsupported ==
    \/ args.gate \notin {"Rx", "Ry", "CNOT"}
    \/ circuits[1].encoding \notin {"pol_path", "path_only"}
    \/ /\ circuits[1].encoding = "pol_path" /\ args.gate = "CNOT"
       /\ args.i = Some(1) /\ args.j = Some(1)

C3_UnsupportedCallChangesNothing ==
    [][(GateCallRan /\ Unsupported)
         => /\ result'.raises # "none"
            /\ ViewOf(StoreAfter, 1) = View(1)]_vars

\* An unknown gate was refused on a circuit that holds elements.
C3_Witness ==
    /\ Done("add_gate")
    /\ args.gate = "H"
    /\ result.raises = "ValueError" /\ result.message = "Unknown gate"
    /\ circuits[1].stage = 1
    /\ Len(circuits[1].elements) > 0

(***************************************************************************)
(* C4: an add_gate call whose qubit operand lies outside [1, N] (0 and     *)
(* negative values included), or a CNOT call with i = j, is rejected with  *)
(* an error and leaves the circuit unchanged.                              *)
(***************************************************************************)
OutsideRegister(x) == ~IsNone(x) /\ Val(x) \notin 1..circuits[1].N

OperandOutOfRange ==
    \/ args.gate \in {"Rx", "Ry"} /\ OutsideRegister(args.i)
    \/ /\ args.gate = "CNOT"
       /\ \/ OutsideRegister(args.i)
          \/ OutsideRegister(args.j)
          \/ ~IsNone(args.i) /\ args.i = args.j

C4_OperandOutOfRangeRejected ==
    [][(GateCallRan /\ OperandOutOfRange)
         => /\ result'.raises # "none"
            /\ ViewOf(StoreAfter, 1) = View(1)]_vars

(***************************************************************************)
(*                         Composition's properties                        *)
(***************************************************************************)
\* The steps of Spec: a * appends its result; hist counts add_gate's successes.
Composed == Len(circuits') = Len(circuits) + 1
GateAdded(x) == hist'[x].added = hist[x].added + 1

Shifted(elements, by) == [m \in 1..Len(elements) |-> [elements[m] EXCEPT !.stage = @ + by]]

(***************************************************************************)
(* C2: for circuits a and b with a.N = b.N, a * b is a circuit whose       *)
(* elements are those of a, unchanged, followed by those of b in b's       *)
(* order, each with its stage increased by a.stage and nothing else        *)
(* changed; it has count(a) + count(b) elements, stage counter a.stage +   *)
(* b.stage, and the N and the encoding of a.                               *)
(***************************************************************************)
C2_ProductIsShiftedConcatenation ==
    /\ [](\A a \in DOMAIN circuits, b \in DOMAIN circuits :
            circuits[a].N = circuits[b].N => __mul__(Store, a, b).raises = "none")
    /\ [][Composed =>
            LET x == Len(circuits')
                va == View(hist'[x].left)
                vb == View(hist'[x].right)
                vx == ViewOf(StoreAfter, x)
            IN  /\ va.N = vb.N
                /\ vx.elements = va.elements \o Shifted(vb.elements, va.stage)
                /\ Len(vx.elements) = Len(va.elements) + Len(vb.elements)
                /\ vx.stage = va.stage + vb.stage
                /\ vx.N = va.N
                /\ vx.encoding = va.encoding]_vars

\* A product of two circuits of different encodings, both holding elements.
C2_Witness ==
    \E x \in DOMAIN circuits :
       /\ hist[x].born = "mul"
       /\ LET a == hist[x].left
              b == hist[x].right
          IN  /\ a # b
              /\ circuits[a].encoding # circuits[b].encoding
              /\ circuits[a].stage = 1 /\ Len(circuits[a].elements) > 0
              /\ circuits[b].stage = 1 /\ Len(circuits[b].elements) > 0
              /\ circuits[x].encoding = circuits[a].encoding
              /\ circuits[x].stage = 2
              /\ View(x).elements[Len(circuits[x].elements)].stage = 1

(***************************************************************************)
(* C5: in every circuit reached by add_gate calls and compositions the     *)
(* stages of the elements are non-decreasing along the element sequence,   *)
(* and add_gate never changes the stage of an element the circuit already  *)
(* holds.                                                                  *)
(***************************************************************************)
NonDecreasing(elements) ==
    \A m \in 1..(Len(elements) - 1) : elements[m].stage <= elements[m + 1].stage

C5_StagesNonDecreasing ==
    /\ [](\A x \in DOMAIN circuits : NonDecreasing(View(x).elements))
    /\ [][\A x \in DOMAIN circuits :
            GateAdded(x) =>
               \A m \in 1..Len(circuits[x].elements) :
                  /\ circuits'[x].elements[m] = circuits[x].elements[m]
                  /\ Deref(heap', circuits[x].elements[m]).stage
                        = Deref(heap, circuits[x].elements[m]).stage]_vars

\* A product extended by a gate: stages 0, 1 and 2 in this order.
C5_Witness ==
    \E x \in DOMAIN circuits :
       /\ hist[x].born = "mul" /\ hist[x].added = 1
       /\ Len(circuits[x].elements) = 3
       /\ View(x).elements[1].stage = 0
       /\ View(x).elements[2].stage = 1
       /\ View(x).elements[3].stage = 2

(***************************************************************************)
(* C6: composition is associative: for circuits a, b, c of equal N,        *)
(* (a * b) * c and a * (b * c) show the same element sequence, the same    *)
(* stage counter and the same configuration.                               *)
(***************************************************************************)
Last(st) == Len(st.circuits)

C6_CompositionAssociative ==
    \A a \in DOMAIN circuits, b \in DOMAIN circuits, c \in DOMAIN circuits :
       (circuits[a].N = circuits[b].N /\ circuits[b].N = circuits[c].N)
       => LET ab == __mul__(Store, a, b)
              ab_c == __mul__(ab, Last(ab), c)
              bc == __mul__(Store, b, c)
              a_bc == __mul__(bc, a, Last(bc))
          IN  /\ ab_c.raises = "none"
              /\ a_bc.raises = "none"
              /\ ViewOf(ab_c, Last(ab_c)) = ViewOf(a_bc, Last(a_bc))

\* Three circuits that hold elements, one of them a product of the others.
C6_Witness ==
    \E a \in DOMAIN circuits, b \in DOMAIN circuits, c \in DOMAIN circuits :
       /\ a # b
       /\ hist[c].born = "mul" /\ hist[c].left = a /\ hist[c].right = b
       /\ circuits[a].stage = 1 /\ Len(circuits[a].elements) > 0
       /\ circuits[b].stage = 1 /\ Len(circuits[b].elements) > 0
       /\ ViewOf(__mul__(__mul__(Store, a, b), Last(__mul__(Store, a, b)), c),
                 Last(Store) + 2).stage = 4

(***************************************************************************)
(* C10: composition only reads its operands and yields an independent      *)
(* circuit: a * b leaves what a and b show as it was, and a later add_gate *)
(* on one circuit changes nothing of what any other circuit shows (its     *)
(* element sequence, the stages of its elements, its stage counter).       *)
(***************************************************************************)
C10_CircuitsIndependent ==
    [][/\ Composed =>
             \A x \in DOMAIN circuits : ViewOf(StoreAfter, x) = View(x)
       /\ \A y \in DOMAIN circuits :
             GateAdded(y) =>
                \A x \in DOMAIN circuits \ {y} : ViewOf(StoreAfter, x) = View(x)]_vars

\* c = a * a holds the very element of a, and a got a second gate afterwards.
C10_Witness ==
    \E a \in DOMAIN circuits, c \in DOMAIN circuits :
       /\ hist[c].born = "mul" /\ hist[c].left = a
       /\ circuits[c].stage = 2
       /\ hist[a].added = 2 /\ circuits[a].stage = 2
       /\ Len(circuits[a].elements) > 1
       /\ circuits[c].elements[1] = circuits[a].elements[1]
       /\ View(c).elements[1].stage = 0
       /\ View(a).elements[Len(circuits[a].elements)].stage = 1

====
